---- MODULE Spec2Model ----
(***************************************************************************)
(* Model of server.js: the POST /api/request proxy handler (prepare the    *)
(* axios config, await the outbound call, await the history save, reply)   *)
(* and the history endpoints over the RequestHistory collection.           *)
(*                                                                         *)
(* JavaScript values that may be undefined are wrapped: Undefined, or      *)
(* Def(v).  Header objects are sets of <<name, value>> pairs.  A handler   *)
(* runs atomically between its await points; the clock (Date.now) only     *)
(* advances between handler steps.  sent is what the latest step sent back *)
(* to a caller, with the request it answers; executions and deleted count  *)
(* the finished executions and note whether a record was ever removed.     *)
(***************************************************************************)
EXTENDS Integers, Sequences, FiniteSets, TLC

VARIABLES store, now, nextId, pc, input, headersObj, config, startTime,
          response, historyRecord, sent, executions, deleted, started, ticks

vars == <<store, now, nextId, pc, input, headersObj, config, startTime,
          response, historyRecord, sent, executions, deleted, started, ticks>>

(* The locals of the POST /api/request handlers *)
locals == <<pc, input, headersObj, config, startTime, response, historyRecord>>

----------------------------------------------------------------------------
(* Bounds of the model *)

MaxExec == 2

MaxTicks == 1

(* Program constants *)

Timeout == 30000

HistoryLimit == 50

(* Concurrent invocations of the POST /api/request handler; an arriving    *)
(* request runs in the first one that is free.                             *)
Handlers == {1, 2}

----------------------------------------------------------------------------
(* JavaScript values *)

Undefined == [defined |-> FALSE]

Def(v) == [defined |-> TRUE, v |-> v]

(* Truthiness of an optional string: undefined and '' are falsy *)
Truthy(x) == x.defined /\ x.v # ""

(* obj[key] on a header object: the value wrapped, or Undefined *)
Get(obj, key) ==
  IF \E pr \in obj : pr[1] = key
  THEN Def((CHOOSE pr \in obj : pr[1] = key)[2])
  ELSE Undefined

(* obj[key] = value *)
Put(obj, key, value) == {pr \in obj : pr[1] # key} \cup {<<key, value>>}

(* String.prototype.toLowerCase, on a string held as a sequence of letters *)
LowerChar(c) ==
  CASE c = "G" -> "g" [] c = "E" -> "e" [] c = "T" -> "t"
    [] c = "P" -> "p" [] c = "O" -> "o" [] c = "S" -> "s"
    [] c = "U" -> "u" [] c = "A" -> "a" [] c = "C" -> "c"
    [] c = "H" -> "h" [] OTHER -> c

toLowerCase(s) == [i \in 1..Len(s) |-> LowerChar(s[i])]

(* JSON.parse on the request bodies the model sends: the parsed value, or  *)
(* a SyntaxError.  A parsed object is a sequence of <<key, number>>.       *)
JSONparse(text) ==
  CASE text = "{\"a\":1}" -> [ok |-> TRUE, value |-> [kind |-> "object", members |-> << <<"a", 1>> >>]]
    [] text = "{}" -> [ok |-> TRUE, value |-> [kind |-> "object", members |-> << >>]]
    [] OTHER -> [ok |-> FALSE]

(* JSON.stringify(value, null, 2) of an object of numbers *)
RECURSIVE StringifyMembers(_, _)
StringifyMembers(members, i) ==
  IF i > Len(members) THEN ""
  ELSE "  \"" \o members[i][1] \o "\": " \o ToString(members[i][2])
       \o (IF i < Len(members) THEN ",\n" ELSE "\n")
       \o StringifyMembers(members, i + 1)

JSONstringify2(value) ==
  IF Len(value.members) = 0 THEN "{}"
  ELSE "{\n" \o StringifyMembers(value.members, 1) \o "}"

(* typeof data === 'object' ? JSON.stringify(data, null, 2) : data *)
NormalizeData(data) ==
  IF data.kind = "object" THEN JSONstringify2(data) ELSE data.text

----------------------------------------------------------------------------
(* Request descriptions sent to POST /api/request *)

GET == Def(<<"G", "E", "T">>)

POST == Def(<<"P", "O", "S", "T">>)

URL == Def("http://origin.test/items")

JsonBody == Def("{\"a\":1}")

TextBody == Def("{not json")

NoHeaders == Def({})

PlainHeaders == Def({<<"Content-Type", "text/plain">>})

Description(m, u, h, b, t) ==
  [method |-> m, url |-> u, headers |-> h, body |-> b, bodyType |-> t]

BodyTypes == {Undefined, Def("raw"), Def("form-data"), Def("urlencoded")}

Descriptions ==
  {Description(Undefined, URL, Undefined, Undefined, Undefined),
   Description(GET, Undefined, NoHeaders, Undefined, Def("raw")),
   Description(GET, URL, Undefined, JsonBody, Def("raw")),
   Description(POST, URL, Undefined, JsonBody, Def("raw")),
   Description(POST, URL, NoHeaders, TextBody, Def("raw")),
   Description(POST, URL, NoHeaders, JsonBody, Undefined),
   Description(POST, URL, NoHeaders, Def(""), Def("raw")),
   Description(Def(<<"p", "u", "t">>), URL, NoHeaders, TextBody, Def("urlencoded")),
   Description(Def(<<"P", "a", "t", "c", "h">>), URL,
               Def({<<"content-type", "text/plain">>}), JsonBody, Def("raw"))}
  \cup {Description(POST, URL, PlainHeaders, b, t) :
          b \in {JsonBody, TextBody}, t \in BodyTypes \ {Undefined}}

(* A wider set of descriptions: every combination of the field values *)
AllDescriptions ==
  {Description(m, URL, h, b, t) :
     m \in {GET, POST, Def(<<"P", "a", "t", "c", "h">>)},
     h \in {Undefined, NoHeaders, PlainHeaders, Def({<<"content-type", "text/plain">>}),
            Def({<<"Content-Type", "">>})},
     b \in {Def(""), JsonBody, TextBody},
     t \in BodyTypes}

(* What the origin may answer, and how the outbound call or the store may fail *)

Responses ==
  {[status |-> 200, statusText |-> "OK",
    headers |-> {<<"content-type", "application/json">>},
    data |-> [kind |-> "object", members |-> << <<"id", 7>>, <<"n", 2>> >>]],
   [status |-> 404, statusText |-> "Not Found", headers |-> {},
    data |-> [kind |-> "text", text |-> "no such item"]]}

Error(message) == [message |-> message, response |-> Undefined]

StatusError(r) ==
  [message |-> "Request failed with status code " \o ToString(r.status), response |-> Def(r)]

TimeoutError == Error("timeout of 30000ms exceeded")

RefusedError == Error("connect ECONNREFUSED")

InvalidUrlError == Error("Invalid URL")

TransportErrors ==
  {InvalidUrlError, RefusedError, TimeoutError} \cup {StatusError(r) : r \in Responses}

MethodTypeError == Error("Cannot read properties of undefined (reading 'toLowerCase')")

StoreError == Error("Operation requesthistories.insertOne() buffering timed out")

ValidationError == Error("RequestHistory validation failed")

----------------------------------------------------------------------------
(* POST /api/request: preparing the axios config (lines 56-81) *)

BodyMethods == {<<"p", "o", "s", "t">>, <<"p", "u", "t">>, <<"p", "a", "t", "c", "h">>}

(* ['post','put','patch'].includes(method.toLowerCase()) && body *)
BodyApplies(method, body) ==
  toLowerCase(method.v) \in BodyMethods /\ Truthy(body)

(* config.data after the body dispatch: Undefined when no branch assigns it *)
ConfigData(method, body, bodyType) ==
  IF ~BodyApplies(method, body) THEN Undefined
  ELSE IF bodyType = Def("raw")
       THEN IF JSONparse(body.v).ok THEN Def(JSONparse(body.v).value)
            ELSE Def([kind |-> "text", text |-> body.v])
  ELSE IF bodyType \in {Def("form-data"), Def("urlencoded")}
       THEN Def([kind |-> "text", text |-> body.v])
  ELSE Undefined

(* config.headers['Content-Type'] || 'application/json' *)
RawContentType(h) ==
  IF Truthy(Get(h, "Content-Type")) THEN Get(h, "Content-Type").v
  ELSE "application/json"

(* The raw branch with the Content-Type line moved out of the try block *)
RawHeadersAfterTry(h, body) == Put(h, "Content-Type", RawContentType(h))

(* The raw branch: the Content-Type line runs only after a successful parse *)
RawHeaders(h, body) ==
  IF JSONparse(body.v).ok THEN Put(h, "Content-Type", RawContentType(h)) ELSE h

(* The form-data and urlencoded branches assign Content-Type outright *)
FormHeaders(h, mime) == Put(h, "Content-Type", mime)

(* config.headers after the body dispatch; it starts as headers || {} *)
ConfigHeaders(method, headers, body, bodyType) ==
  LET h == IF headers.defined THEN headers.v ELSE {} IN
  IF ~BodyApplies(method, body) THEN h
  ELSE IF bodyType = Def("raw") THEN RawHeaders(h, body)
  ELSE IF bodyType = Def("form-data") THEN FormHeaders(h, "multipart/form-data")
  ELSE IF bodyType = Def("urlencoded") THEN FormHeaders(h, "application/x-www-form-urlencoded")
  ELSE h

(* config.validateStatus: () => true, every status resolves *)
validateStatus(status) == TRUE

PrepareConfig(d) ==
  [method |-> toLowerCase(d.method.v),
   url |-> d.url,
   headers |-> ConfigHeaders(d.method, d.headers, d.body, d.bodyType),
   data |-> ConfigData(d.method, d.body, d.bodyType),
   timeout |-> Timeout]

(* The object the variable headers refers to      once the config is built:   *)
(* config.headers is that same object whenever headers is not undefined.   *)
HeadersAfter(headers, configHeaders) ==
  IF headers.defined THEN Def(configHeaders) ELSE Undefined

NoConfig == [method |-> << >>]

NoResponse == [status |-> -1]

NoRecord == [id |-> 0]

NoReply == [op |-> "none", http |-> 0]

NoInput == [method |-> Undefined]

----------------------------------------------------------------------------
(* POST /api/request: the response data, the record, the replies *)

(* responseData (lines 88-94) *)
ResponseData(r, timeTaken) ==
  [status |-> r.status, statusText |-> r.statusText, headers |-> r.headers,
   data |-> NormalizeData(r.data), time |-> timeTaken]

(* new RequestHistory({...}) with the schema defaults (lines 23-37, 97-104) *)
NewRequestHistory(id, method, url, headers, body, bodyType, responseData, t) ==
  [id |-> id, method |-> method, url |-> url,
   headers |-> IF headers.defined THEN headers.v ELSE {},
   body |-> IF body.defined THEN body.v ELSE "",
   bodyType |-> IF bodyType.defined THEN bodyType.v ELSE "raw",
   response |-> responseData, createdAt |-> t]

(* The required validators of the schema, run by save() *)
Validates(rec) == rec.method.defined /\ Len(rec.method.v) > 0 /\ Truthy(rec.url)

(* req.startTime: a property nothing in the program ever sets *)
reqStartTime == Undefined

(* Date.now() - (req.startTime || Date.now()), line 115 *)
CatchTimeTaken(t) ==
  t - (IF reqStartTime.defined /\ reqStartTime.v # 0 THEN reqStartTime.v ELSE t)

(* errorResponse (lines 117-127) *)
ErrorResponse(error, timeTaken) ==
  LET r == error.response IN
  [status |-> IF r.defined THEN r.v.status ELSE 0,
   statusText |-> IF r.defined /\ r.v.statusText # "" THEN r.v.statusText ELSE error.message,
   headers |-> IF r.defined THEN r.v.headers ELSE {},
   data |-> IF r.defined /\ (r.v.data.kind = "object" \/ r.v.data.text # "")
            THEN NormalizeData(r.v.data) ELSE error.message,
   time |-> timeTaken]

(* res.json of the catch block (lines 129-133): express replies 200 *)
CatchReply(error, t) ==
  [http |-> 200, success |-> FALSE,
   response |-> ErrorResponse(error, CatchTimeTaken(t)),
   historyId |-> Undefined, error |-> Def(error.message)]

(* res.json of the success path (lines 108-112) *)
SuccessReply(rec) ==
  [http |-> 200, success |-> TRUE, response |-> rec.response,
   historyId |-> Def(rec.id), error |-> Undefined]

----------------------------------------------------------------------------
(* The RequestHistory collection *)

(* find().sort({createdAt: -1}): every order of the records in which       *)
(* createdAt never increases; records with equal createdAt come in any     *)
(* order, the sort key does not separate them.                             *)
Orders(n) ==
  {f \in [1..n -> 1..n] : \A i, j \in 1..n : i # j => f[i] # f[j]}

SortedNewestFirst(recs) ==
  {[i \in 1..Len(recs) |-> recs[f[i]]] : f \in
     {g \in Orders(Len(recs)) :
        \A i \in 1..Len(recs) - 1 : recs[g[i]].createdAt >= recs[g[i + 1]].createdAt}}

(* .limit(n) *)
Limit(recs, n) == SubSeq(recs, 1, IF Len(recs) < n THEN Len(recs) ELSE n)

(* findById *)
FindById(recs, id) == {i \in 1..Len(recs) : recs[i].id = id}

RECURSIVE Without(_, _)
Without(recs, id) ==
  IF recs = << >> THEN << >>
  ELSE IF Head(recs).id = id THEN Tail(recs)
  ELSE <<Head(recs)>> \o Without(Tail(recs), id)

----------------------------------------------------------------------------
Init ==
  /\ store = << >>
  /\ now = 1
  /\ nextId = 1
  /\ pc = [p \in Handlers |-> "idle"]
  /\ input = [p \in Handlers |-> NoInput]
  /\ headersObj = [p \in Handlers |-> Undefined]
  /\ config = [p \in Handlers |-> NoConfig]
  /\ startTime = [p \in Handlers |-> 0]
  /\ response = [p \in Handlers |-> NoResponse]
  /\ historyRecord = [p \in Handlers |-> NoRecord]
  /\ sent = NoReply
  /\ executions = 0
  /\ deleted = FALSE
  /\ started = 0
  /\ ticks = 0

(* The handler returns: its locals are gone *)
Return(p) ==
  /\ pc' = [pc EXCEPT ![p] = "idle"]
  /\ input' = [input EXCEPT ![p] = NoInput]
  /\ headersObj' = [headersObj EXCEPT ![p] = Undefined]
  /\ config' = [config EXCEPT ![p] = NoConfig]
  /\ startTime' = [startTime EXCEPT ![p] = 0]
  /\ response' = [response EXCEPT ![p] = NoResponse]
  /\ historyRecord' = [historyRecord EXCEPT ![p] = NoRecord]

(* What a step of POST /api/request sends: the reply, with the request it  *)
(* answers, the origin's response if one came, and the times.              *)
Exchange(d, cfg, origin, begun, outcome, body) ==
  [op |-> "request", request |-> d, config |-> cfg, origin |-> origin,
   startTime |-> begun, outcome |-> outcome, http |-> body.http, reply |-> body]

(* Time passes between handler steps *)
Tick ==
  /\ ticks < MaxTicks
  /\ \E d \in {1, Timeout} : now' = now + d
  /\ ticks' = ticks + 1
  /\ sent' = NoReply
  /\ UNCHANGED <<store, nextId, locals, executions, deleted, started>>

(* POST /api/request up to the await of axios(config) (lines 49-84).  A    *)
(* missing method throws at method.toLowerCase() and the catch block       *)
(* replies at once.                                                        *)
PostRequest(p, d) ==
  /\ pc[p] = "idle"
  /\ \A q \in Handlers : q < p => pc[q] # "idle"
  /\ started < MaxExec
  /\ started' = started + 1
  /\ IF d.method.defined
     THEN /\ input' = [input EXCEPT ![p] = d]
          /\ startTime' = [startTime EXCEPT ![p] = now]
          /\ config' = [config EXCEPT ![p] = PrepareConfig(d)]
          /\ headersObj' = [headersObj EXCEPT ![p] =
                              HeadersAfter(d.headers, PrepareConfig(d).headers)]
          /\ pc' = [pc EXCEPT ![p] = "axios"]
          /\ sent' = NoReply
          /\ UNCHANGED <<response, historyRecord>>
     ELSE /\ sent' = Exchange(d, NoConfig, NoResponse, now, "threw",
                              CatchReply(MethodTypeError, now))
          /\ UNCHANGED locals
  /\ UNCHANGED <<store, now, nextId, executions, deleted, ticks>>

(* axios(config) resolves with the origin's response, whatever its status  *)
(* (validateStatus accepts all); the handler builds responseData and the   *)
(* record and awaits save() (lines 84-106).                                *)
AxiosResolve(p, r) ==
  /\ pc[p] = "axios"
  /\ validateStatus(r.status)
  /\ now - startTime[p] <= Timeout
  /\ response' = [response EXCEPT ![p] = r]
  /\ historyRecord' = [historyRecord EXCEPT ![p] =
       NewRequestHistory(nextId, input[p].method, input[p].url, headersObj[p],
                         input[p].body, input[p].bodyType,
                         ResponseData(r, now - startTime[p]), now)]
  /\ nextId' = nextId + 1
  /\ pc' = [pc EXCEPT ![p] = "save"]
  /\ sent' = NoReply
  /\ UNCHANGED <<store, now, input, headersObj, config, startTime,
                 executions, deleted, started, ticks>>

(* The errors axios(config) may reject with: a URL it cannot use, a        *)
(* refused connection, the timeout once 30000 ms have passed, or a status  *)
(* that validateStatus turns down (the error then carries the response).   *)
AxiosErrors(p) ==
  (IF config[p].url.defined THEN {RefusedError} ELSE {InvalidUrlError, RefusedError})
  \cup (IF now - startTime[p] >= Timeout THEN {TimeoutError} ELSE {})
  \cup {StatusError(r) : r \in {x \in Responses : ~validateStatus(x.status)}}

(* axios(config) rejects: the catch block replies (lines 114-134) *)
AxiosReject(p, e) ==
  /\ pc[p] = "axios"
  /\ e \in AxiosErrors(p)
  /\ sent' = Exchange(input[p], config[p], NoResponse, startTime[p],
                      IF e = InvalidUrlError THEN "threw"
                      ELSE IF e.response.defined THEN "status" ELSE "transport",
                      CatchReply(e, now))
  /\ executions' = IF e = InvalidUrlError THEN executions ELSE executions + 1
  /\ Return(p)
  /\ UNCHANGED <<store, now, nextId, deleted, started, ticks>>

(* save() resolves: the record is in the collection, the success reply     *)
(* goes out (lines 106-112).                                               *)
SaveResolve(p) ==
  /\ pc[p] = "save"
  /\ Validates(historyRecord[p])
  /\ store' = Append(store, historyRecord[p])
  /\ sent' = Exchange(input[p], config[p], response[p], startTime[p], "saved",
                      SuccessReply(historyRecord[p]))
  /\ executions' = executions + 1
  /\ Return(p)
  /\ UNCHANGED <<now, nextId, deleted, started, ticks>>

(* save() rejects, on a validation error or a store failure: the catch     *)
(* block replies (lines 114-134).                                          *)
SaveReject(p, e) ==
  /\ pc[p] = "save"
  /\ e \in (IF Validates(historyRecord[p]) THEN {StoreError} ELSE {ValidationError})
  /\ sent' = Exchange(input[p], config[p], response[p], startTime[p], "saveFailed",
                      CatchReply(e, now))
  /\ executions' = executions + 1
  /\ Return(p)
  /\ UNCHANGED <<store, now, nextId, deleted, started, ticks>>

(* GET /api/history (lines 138-154) *)
GetHistory ==
  /\ \/ \E sorted \in SortedNewestFirst(store) :
          sent' = [op |-> "list", http |-> 200, success |-> TRUE,
                   history |-> Limit(sorted, HistoryLimit)]
     \/ sent' = [op |-> "list", http |-> 500, success |-> FALSE,
                 error |-> StoreError.message]
  /\ UNCHANGED <<store, now, nextId, locals, executions, deleted, started, ticks>>

(* GET /api/history/:id (lines 157-178) *)
GetHistoryById(id) ==
  /\ \/ /\ FindById(store, id) = {}
        /\ sent' = [op |-> "get", http |-> 404, success |-> FALSE,
                    error |-> "Request not found"]
     \/ \E i \in FindById(store, id) :
          sent' = [op |-> "get", http |-> 200, success |-> TRUE,
                   request |-> store[i]]
     \/ sent' = [op |-> "get", http |-> 500, success |-> FALSE,
                 error |-> StoreError.message]
  /\ UNCHANGED <<store, now, nextId, locals, executions, deleted, started, ticks>>

(* DELETE /api/history/:id (lines 181-195) *)
DeleteHistoryById(id) ==
  /\ \/ /\ store' = Without(store, id)
        /\ deleted' = (deleted \/ FindById(store, id) # {})
        /\ sent' = [op |-> "delete", http |-> 200, success |-> TRUE,
                    message |-> "Request deleted from history"]
     \/ /\ UNCHANGED <<store, deleted>>
        /\ sent' = [op |-> "delete", http |-> 500, success |-> FALSE,
                    error |-> StoreError.message]
  /\ UNCHANGED <<now, nextId, locals, executions, started, ticks>>

(* DELETE /api/history (lines 198-212) *)
ClearHistory ==
  /\ \/ /\ store' = << >>
        /\ deleted' = (deleted \/ store # << >>)
        /\ sent' = [op |-> "clear", http |-> 200, success |-> TRUE,
                    message |-> "All history cleared"]
     \/ /\ UNCHANGED <<store, deleted>>
        /\ sent' = [op |-> "clear", http |-> 500, success |-> FALSE,
                    error |-> StoreError.message]
  /\ UNCHANGED <<now, nextId, locals, executions, started, ticks>>

Next ==
  \/ Tick
  \/ \E p \in Handlers, d \in Descriptions : PostRequest(p, d)
  \/ \E p \in Handlers, r \in Responses : AxiosResolve(p, r)
  \/ \E p \in Handlers, e \in TransportErrors : AxiosReject(p, e)
  \/ \E p \in Handlers : SaveResolve(p)
  \/ \E p \in Handlers, e \in {ValidationError, StoreError} : SaveReject(p, e)
  \/ GetHistory
  \/ \E id \in 1..(MaxExec + 1) : GetHistoryById(id)
  \/ \E id \in 1..(MaxExec + 1) : DeleteHistoryById(id)
  \/ ClearHistory

Spec == Init /\ [][Next]_vars

(* The handlers up to the outbound call, over the wider inputs, while the  *)
(* origin has not answered yet.                                            *)
NextDispatch ==
  \/ Tick
  \/ \E p \in Handlers, d \in AllDescriptions : PostRequest(p, d)

SpecDispatch == Init /\ [][NextDispatch]_vars

----------------------------------------------------------------------------
(* Properties *)

Min(a, b) == IF a < b THEN a ELSE b

(* The latest step answered a POST /api/request *)
Answered == sent.op = "request"

(* The record of the store with the given id, if any *)
Stored(id) == {i \in 1..Len(store) : store[i].id = id}

(* Handler p has dispatched a POST/PUT/PATCH with a non-empty body *)
DispatchedWithBody(p) ==
  pc[p] = "axios" /\ BodyApplies(input[p].method, input[p].body)

(* The headers the caller sent, as a header object *)
CallerHeaders(d) == IF d.headers.defined THEN d.headers.v ELSE {}

(* C1: every execution whose outbound call completed, with a response or   *)
(* with a transport failure, has added exactly one record: with no delete, *)
(* the store holds as many records as executions have finished, and a      *)
(* transport-failure execution is stored with its failure outcome.         *)
C1_EveryCompletedExecutionStored ==
  ~deleted =>
    /\ Len(store) = executions
    /\ (Answered /\ sent.outcome = "transport") =>
          \E i \in 1..Len(store) : store[i].response = sent.reply.response

(* C2: when the origin answered and the save then failed, the caller still *)
(* gets the origin's status, statusText, headers and body, with no         *)
(* historyId.                                                              *)
C2_ResponseSurvivesSaveFailure ==
  (Answered /\ sent.outcome = "saveFailed") =>
    /\ sent.reply.response.status = sent.origin.status
    /\ sent.reply.response.statusText = sent.origin.statusText
    /\ sent.reply.response.headers = sent.origin.headers
    /\ sent.reply.response.data = NormalizeData(sent.origin.data)
    /\ ~sent.reply.historyId.defined

(* C3: a request without method or without URL is answered with a 4xx,     *)
(* before any outbound call and without a record.                          *)
C3_MissingMethodOrUrlRejected ==
  (Answered /\ (~sent.request.method.defined \/ ~sent.request.url.defined)) =>
    /\ sent.http \in 400..499
    /\ sent.outcome = "threw"

(* C4: for every bodyType, a POST/PUT/PATCH with a non-empty body whose    *)
(* caller headers hold Content-Type goes out with the caller's value.      *)
C4_CallerContentTypeKept ==
  \A p \in Handlers :
    (/\ DispatchedWithBody(p)
     /\ input[p].bodyType \in {Def("raw"), Def("form-data"), Def("urlencoded")}
     /\ Get(CallerHeaders(input[p]), "Content-Type").defined) =>
       Get(config[p].headers, "Content-Type") = Get(CallerHeaders(input[p]), "Content-Type")

(* C5: whenever the origin answered, with any status, the reply is HTTP    *)
(* 200 with success, the origin's status and a historyId, and the exchange *)
(* is stored.                                                              *)
C5_AnyStatusIsNormalCompletion ==
  (Answered /\ sent.origin # NoResponse) =>
    /\ sent.http = 200
    /\ sent.reply.success
    /\ sent.reply.response.status = sent.origin.status
    /\ sent.reply.historyId.defined
    /\ Stored(sent.reply.historyId.v) # {}

(* C6: on a transport failure the reported time is the time from the clock *)
(* start before dispatch to the failure, at least 30000 for a timeout.     *)
C6_FailureTimeIsElapsed ==
  (Answered /\ sent.outcome = "transport") =>
    /\ sent.reply.response.time = now - sent.startTime
    /\ (sent.reply.error = Def(TimeoutError.message) => sent.reply.response.time >= Timeout)

(* C7: after N >= 1 executions and no delete, GET /api/history returns the *)
(* min(N, 50) newest records, each newer than the one after it and none    *)
(* older than an omitted one.                                              *)
C7_HistoryNewestFirst ==
  (sent.op = "list" /\ sent.http = 200 /\ ~deleted /\ executions >= 1) =>
    /\ Len(sent.history) = Min(executions, HistoryLimit)
    /\ \A i \in 1..Len(sent.history) - 1 :
         sent.history[i].createdAt > sent.history[i + 1].createdAt
    /\ \A i \in 1..Len(sent.history) : Stored(sent.history[i].id) # {}
    /\ \A i \in 1..Len(sent.history), j \in 1..Len(store) :
         (\A k \in 1..Len(sent.history) : sent.history[k].id # store[j].id) =>
            sent.history[i].createdAt >= store[j].createdAt

(* Handler p has dispatched a raw POST/PUT/PATCH with a non-empty body     *)
(* and no Content-Type among the caller's headers.                         *)
RawWithoutContentType(p) ==
  /\ DispatchedWithBody(p)
  /\ input[p].bodyType = Def("raw")
  /\ ~Get(CallerHeaders(input[p]), "Content-Type").defined

(* C8 as stated: such a request goes out with Content-Type                 *)
(* application/json whether or not the body parses.                        *)
C8_RawAlwaysJsonContentType ==
  \A p \in Handlers :
    RawWithoutContentType(p) =>
      Get(config[p].headers, "Content-Type") = Def("application/json")

(* C8 as amended: when the body parses, the request goes out with the      *)
(* parsed value and Content-Type application/json; when it does not, it    *)
(* goes out with the original string and exactly the caller's headers.     *)
C8_RawJsonContentTypeOnlyWhenParsed ==
  \A p \in Handlers :
    RawWithoutContentType(p) =>
      IF JSONparse(input[p].body.v).ok
      THEN /\ config[p].data = Def(JSONparse(input[p].body.v).value)
           /\ config[p].headers =
                CallerHeaders(input[p]) \cup {<<"Content-Type", "application/json">>}
      ELSE /\ config[p].data = Def([kind |-> "text", text |-> input[p].body.v])
           /\ config[p].headers = CallerHeaders(input[p])

(* C8: two such requests are in flight, one whose body does not parse and  *)
(* one whose body does.                                                    *)
C8_Witness ==
  \E p, q \in Handlers :
    /\ RawWithoutContentType(p) /\ ~JSONparse(input[p].body.v).ok
    /\ RawWithoutContentType(q) /\ JSONparse(input[q].body.v).ok

(* C9: a POST/PUT/PATCH with a non-empty body and no bodyType goes out     *)
(* like the same request with bodyType raw, body included.                 *)
C9_BodyTypeDefaultsToRaw ==
  \A p \in Handlers :
    (DispatchedWithBody(p) /\ ~input[p].bodyType.defined) =>
      /\ config[p] = PrepareConfig([input[p] EXCEPT !.bodyType = Def("raw")])
      /\ config[p].data.defined

(* C10: the stored record holds the headers the caller sent, without a     *)
(* Content-Type the handler added for the outbound request.                *)
C10_RecordKeepsCallerHeaders ==
  (Answered /\ sent.outcome = "saved") =>
    \A i \in Stored(sent.reply.historyId.v) :
      store[i].headers = CallerHeaders(sent.request)

====
